---------------------------- MODULE Spec2Model ----------------------------
(***************************************************************************)
(* A model of src/main.c: the one-byte robot header.                       *)
(*                                                                         *)
(*   bit 7      gender      (0 = female, 1 = male)                         *)
(*   bits 6-5   version     (00 = version 1 ... 11 = version 4)            *)
(*   bit 4      active                                                     *)
(*   bits 3-0   row of the gigahertz table of the header comment           *)
(*                                                                         *)
(* The translation unit has two functions with external linkage,           *)
(* parseByte and getRobotGender, and the entry point main.  The model has  *)
(* the run of main, statement block by statement block, and a client that  *)
(* calls either function on any unsigned char.  The encoder of spec.md     *)
(* section 4.2 is not in the repository; it is modelled from the spec.     *)
(*                                                                         *)
(* C values are modelled as integers; a conversion to a narrower type and  *)
(* the bitwise operators are computed on the two's complement bits.        *)
(* Whether plain char is signed is implementation-defined: charSigned is   *)
(* chosen in Init and both builds are explored.                            *)
(***************************************************************************)
EXTENDS Integers, Sequences, FiniteSets

VARIABLES
    charSigned,   \* the build: TRUE when plain char is a signed type
    pc,           \* main: the statement block to run next
    bytes,        \* main: char bytes[] (line 117), <<>> before its declaration
    firstByte,    \* main: const uint8_t firstByte (line 119)
    gender,       \* main: int gender (line 122)
    hdrs,         \* main: hdr1, hdr2, hdr3 as far as they are initialised
    failed,       \* main: line of the assertion that aborted the run, 0 if none
    out,          \* main: what the run has written to stdout so far
    fn,           \* client: the function last called ("none" before any call)
    arg,          \* client: its argument
    ret,          \* client: its return value
    printed       \* client: what that call wrote to stdout

mainVars == <<pc, bytes, firstByte, gender, hdrs, failed, out>>
clientVars == <<fn, arg, ret, printed>>
vars == <<charSigned, pc, bytes, firstByte, gender, hdrs, failed, out,
          fn, arg, ret, printed>>

---------------------------------------------------------------------------
(* C integer types and operators *)

\* Bits of an unsigned char.
CharBits == 8

\* How far outside its domain the client takes each field it hands to encode.
FieldSlack == 1

Pow2(n) == 2 ^ n

UCharRange == 0 .. (Pow2(CharBits) - 1)

\* Conversion to unsigned char or uint8_t: the value modulo 2^8.
ToUnsignedChar(x) == x % Pow2(CharBits)

\* Conversion to plain char: modulo 2^8, and on a build whose char is signed
\* the values above 127 wrap to the negative ones.
ToChar(x, signedChar) ==
    LET u == x % Pow2(CharBits)
    IN  IF signedChar /\ u >= Pow2(CharBits - 1) THEN u - Pow2(CharBits) ELSE u

\* a & b on ints, two's complement: bit by bit from the low end, \div 2
\* rounding down so that a negative operand keeps its sign bits; 0 and -1
\* (all bits clear, all bits set) end the recursion.
RECURSIVE BitAnd(_, _)
BitAnd(a, b) ==
    IF a = 0 \/ b = 0 THEN 0
    ELSE IF a = -1 THEN b
    ELSE IF b = -1 THEN a
    ELSE (a % 2) * (b % 2) + 2 * BitAnd(a \div 2, b \div 2)

\* a | b on ints, two's complement, likewise.
RECURSIVE BitOr(_, _)
BitOr(a, b) ==
    IF a = 0 THEN b
    ELSE IF b = 0 THEN a
    ELSE IF a = -1 \/ b = -1 THEN -1
    ELSE (IF a % 2 = 1 \/ b % 2 = 1 THEN 1 ELSE 0)
         + 2 * BitOr(a \div 2, b \div 2)

\* x >> n for a non-negative int x.
ShiftRight(x, n) == x \div Pow2(n)

\* x << n for a non-negative int x whose result fits an int.
ShiftLeft(x, n) == x * Pow2(n)

---------------------------------------------------------------------------
(* parseByte and getRobotGender *)

\* parseByte with the shift its own comment on line 87 writes, >> 6, for the
\* version.
parseByte_ShiftSix(byte) ==
    [gender    |-> ShiftRight(byte, 7),
     version   |-> BitAnd(ShiftRight(byte, 6), 3),
     active    |-> BitAnd(ShiftRight(byte, 4), 1),
     gigahertz |-> BitAnd(byte, 15)]

\* parseByte with a three-bit mask, 0b00000111, on the version.
parseByte_WideVersionMask(byte) ==
    [gender    |-> ShiftRight(byte, 7),
     version   |-> BitAnd(ShiftRight(byte, 5), 7),
     active    |-> BitAnd(ShiftRight(byte, 4), 1),
     gigahertz |-> BitAnd(byte, 15)]

\* parseByte with a three-bit mask, 0b00000111, on the low four bits.
parseByte_NarrowCodeMask(byte) ==
    [gender    |-> ShiftRight(byte, 7),
     version   |-> BitAnd(ShiftRight(byte, 5), 3),
     active    |-> BitAnd(ShiftRight(byte, 4), 1),
     gigahertz |-> BitAnd(byte, 7)]

\* struct RobotHeader parseByte(unsigned char byte): >> binds tighter than &.
parseByte(byte) ==
    [gender    |-> ShiftRight(byte, 7),
     version   |-> BitAnd(ShiftRight(byte, 5), 3),
     active    |-> BitAnd(ShiftRight(byte, 4), 1),
     gigahertz |-> BitAnd(byte, 15)]

\* parseByte with a diagnostic printf of its argument, as getRobotGender has.
parseByteStdout_Diagnostic(byte) == << <<85, byte, byte>> >>

\* What a call of parseByte writes to stdout: it has no output statement.
parseByteStdout(byte) == <<>>

\* The mask of bit 6, 0x40, in place of 0x80.
GenderMask_Bit6(signedChar) == ToChar(64, signedChar)

\* char mask = 0x80;
GenderMask(signedChar) == ToChar(128, signedChar)

\* unsigned char res = byte & mask;
GenderRes(byte, signedChar) ==
    ToUnsignedChar(BitAnd(byte, GenderMask(signedChar)))

\* int getRobotGender(unsigned char byte): its return value.
getRobotGender(byte, signedChar) ==
    IF GenderRes(byte, signedChar) = 0 THEN 0 ELSE 1

\* What a call of getRobotGender writes to stdout: the printf of line 101 and
\* that of line 102, each line as <<source line, arguments>>.
getRobotGenderStdout(byte, signedChar) ==
    << <<101, byte, byte>>,
       <<102, GenderRes(byte, signedChar), GenderRes(byte, signedChar)>> >>

---------------------------------------------------------------------------
(* main *)

\* The initialiser of char bytes[] = {0xFF, 0x92, 0x18}.
BytesInit == <<255, 146, 24>>

\* The values the assertions of main compare hdr1, hdr2 and hdr3 with.
Asserted ==
    << [gender |-> 1, version |-> 3, active |-> 1, gigahertz |-> 15],
       [gender |-> 1, version |-> 0, active |-> 1, gigahertz |-> 2],
       [gender |-> 0, version |-> 0, active |-> 1, gigahertz |-> 8] >>

\* The line of the first printf of each robot's block; its four printfs and
\* then its four assertions follow on the next lines.
BlockLine == <<128, 143, 158>>

\* The four printfs of robot n's block.
HeaderLines(n, hdr) ==
    << <<BlockLine[n],     hdr.gender>>,
       <<BlockLine[n] + 1, hdr.version>>,
       <<BlockLine[n] + 2, hdr.active>>,
       <<BlockLine[n] + 3, hdr.gigahertz>> >>

\* The line of the first assertion of robot n's block that fails, 0 if none.
FirstFailure(n, hdr) ==
    IF hdr.gender # Asserted[n].gender THEN BlockLine[n] + 4
    ELSE IF hdr.version # Asserted[n].version THEN BlockLine[n] + 5
    ELSE IF hdr.active # Asserted[n].active THEN BlockLine[n] + 6
    ELSE IF hdr.gigahertz # Asserted[n].gigahertz THEN BlockLine[n] + 7
    ELSE 0

\* Lines 117-121: the array, firstByte and the first printf.
MainStart ==
    /\ pc = "start"
    /\ LET stored == [i \in 1..3 |-> ToChar(BytesInit[i], charSigned)]
           first == ToUnsignedChar(stored[1])
       IN  /\ bytes' = stored
           /\ firstByte' = first
           /\ out' = << <<121, first, first>> >>
    /\ pc' = "gender"
    /\ UNCHANGED <<charSigned, gender, hdrs, failed>>
    /\ UNCHANGED clientVars

\* Lines 122-123: getRobotGender(firstByte) and the printf of its result.
MainGender ==
    /\ pc = "gender"
    /\ gender' = getRobotGender(firstByte, charSigned)
    /\ out' = out \o getRobotGenderStdout(firstByte, charSigned)
                  \o << <<123, gender'>> >>
    /\ pc' = "robot1"
    /\ UNCHANGED <<charSigned, bytes, firstByte, hdrs, failed>>
    /\ UNCHANGED clientVars

\* A robot's block: parseByte, four printfs, four assertions.  A failed
\* assertion aborts the run.
RobotBlock(n, byte, next) ==
    LET hdr == parseByte(byte)
        bad == FirstFailure(n, hdr)
    IN  /\ hdrs' = Append(hdrs, hdr)
        /\ out' = out \o parseByteStdout(byte) \o HeaderLines(n, hdr)
        /\ failed' = bad
        /\ pc' = IF bad = 0 THEN next ELSE "aborted"
        /\ UNCHANGED <<charSigned, bytes, firstByte, gender>>
        /\ UNCHANGED clientVars

\* Lines 127-135: hdr1 = parseByte(firstByte).
MainRobot1 ==
    /\ pc = "robot1"
    /\ RobotBlock(1, firstByte, "robot2")

\* Lines 142-150: hdr2 = parseByte(bytes[1]), the char converted to the
\* parameter's type.
MainRobot2 ==
    /\ pc = "robot2"
    /\ RobotBlock(2, ToUnsignedChar(bytes[2]), "robot3")

\* Lines 157-165: hdr3 = parseByte(bytes[2]); main then returns.
MainRobot3 ==
    /\ pc = "robot3"
    /\ RobotBlock(3, ToUnsignedChar(bytes[3]), "done")

---------------------------------------------------------------------------
(* The encoder of spec.md section 4.2 *)

\* The header comment's table: row = the 4-bit code, column = the version.
Table ==
    << <<0, 0, 0, 100>>,
       <<0, 0, 100, 200>>,
       <<0, 100, 150, 250>>,
       <<0, 125, 175, 340>>,
       <<5, 125, 180, 365>>,
       <<10, 150, 200, 365>>,
       <<10, 150, 375, 375>>,
       <<10, 150, 400, 400>>,
       <<15, 150, 450, 1000>>,
       <<15, 150, 450, 1150>>,
       <<15, 150, 500, 1250>>,
       <<20, 155, 550, 5000>>,
       <<100, 200, 1560, 9800>>,
       <<150, 250, 2000, 12100>>,
       <<230, 330, 6000, 23500>>,
       <<300, 500, 18000, 235550>> >>

\* The table's entry for a version in 1..4 and a code in 0..15.
resolve(version, code) == Table[code + 1][version]

\* encode: InvalidArgument for a field outside its domain, else the byte
\* (gender << 7) | ((version-1) << 5) | (active << 4) | code4.
encode(g, v, a, c) ==
    IF g \in 0..1 /\ v \in 1..4 /\ a \in 0..1 /\ c \in 0..15
    THEN [status |-> "ok",
          byte |-> BitOr(BitOr(BitOr(ShiftLeft(g, 7), ShiftLeft(v - 1, 5)),
                               ShiftLeft(a, 4)), c)]
    ELSE [status |-> "InvalidArgument"]

---------------------------------------------------------------------------
(* The client: one call per run, on any input, then at most the re-encoding *)
(* of what parseByte returned.  The functions keep no state between calls, *)
(* so one call per run covers every call.                                  *)

\* A call parseByte(b) from another translation unit.
CallParseByte ==
    \E b \in UCharRange :
        /\ fn = "none"
        /\ fn' = "parseByte"
        /\ arg' = b
        /\ ret' = parseByte(b)
        /\ printed' = parseByteStdout(b)
        /\ UNCHANGED charSigned
        /\ UNCHANGED mainVars

\* A call getRobotGender(b) from another translation unit.
CallGetRobotGender ==
    \E b \in UCharRange :
        /\ fn = "none"
        /\ fn' = "getRobotGender"
        /\ arg' = b
        /\ ret' = getRobotGender(b, charSigned)
        /\ printed' = getRobotGenderStdout(b, charSigned)
        /\ UNCHANGED charSigned
        /\ UNCHANGED mainVars

\* encode on any four field values, in their domains or just outside.
CallEncode ==
    \E g \in (0 - FieldSlack) .. (1 + FieldSlack),
       v \in (1 - FieldSlack) .. (4 + FieldSlack),
       a \in (0 - FieldSlack) .. (1 + FieldSlack),
       c \in (0 - FieldSlack) .. (15 + FieldSlack) :
        /\ fn = "none"
        /\ fn' = "encode"
        /\ arg' = [gender |-> g, version |-> v, active |-> a, code |-> c]
        /\ ret' = encode(g, v, a, c)
        /\ printed' = <<>>
        /\ UNCHANGED charSigned
        /\ UNCHANGED mainVars

\* The round trip: the header parseByte has just returned for the byte arg is
\* handed to encode, field by field.
CallEncodeDecoded ==
    /\ fn = "parseByte"
    /\ fn' = "roundTrip"
    /\ arg' = arg
    /\ ret' = encode(ret.gender, ret.version, ret.active, ret.gigahertz)
    /\ printed' = <<>>
    /\ UNCHANGED charSigned
    /\ UNCHANGED mainVars

---------------------------------------------------------------------------
(* The specification *)

Init ==
    /\ charSigned \in BOOLEAN
    /\ pc = "start"
    /\ bytes = <<>>
    /\ firstByte = 0
    /\ gender = 0
    /\ hdrs = <<>>
    /\ failed = 0
    /\ out = <<>>
    /\ fn = "none"
    /\ arg = 0
    /\ ret = 0
    /\ printed = <<>>

Next ==
    \/ MainStart
    \/ MainGender
    \/ MainRobot1
    \/ MainRobot2
    \/ MainRobot3
    \/ CallParseByte
    \/ CallGetRobotGender
    \/ CallEncode
    \/ CallEncodeDecoded

Spec == Init /\ [][Next]_vars

---------------------------------------------------------------------------
(* Properties *)

\* The byte b with the bit of weight w (a power of two) inverted.
FlipBit(b, w) == IF (b \div w) % 2 = 1 THEN b - w ELSE b + w

\* C1: parseByte(b) returns gender = bit 7, version = the raw two bits 6-5,
\* active = bit 4 and gigahertz = bits 3-0 of b, for every byte b; and the
\* run of main, whose bytes pass through a char array, fails none of its
\* twelve assertions: hdr1 = (1, 3, 1, 15), hdr2 = (1, 0, 1, 2) and
\* hdr3 = (0, 0, 1, 8).
C1_ParseByteFields ==
    /\ fn = "parseByte" =>
           ret = [gender    |-> arg \div 128,
                  version   |-> (arg \div 32) % 4,
                  active    |-> (arg \div 16) % 2,
                  gigahertz |-> arg % 16]
    /\ pc # "aborted"
    /\ failed = 0
    /\ pc \notin {"start", "gender"} => firstByte = 255
    /\ Len(hdrs) >= 1 =>
           hdrs[1] = [gender |-> 1, version |-> 3, active |-> 1, gigahertz |-> 15]
    /\ Len(hdrs) >= 2 =>
           hdrs[2] = [gender |-> 1, version |-> 0, active |-> 1, gigahertz |-> 2]
    /\ Len(hdrs) >= 3 =>
           hdrs[3] = [gender |-> 0, version |-> 0, active |-> 1, gigahertz |-> 8]
    /\ pc = "done" => Len(hdrs) = 3

\* C1's case: main has run to its end on a build whose char is signed (the
\* array holds -1 and -110 for 0xFF and 0x92), and a client has decoded 0x92.
C1_Witness ==
    /\ pc = "done"
    /\ charSigned
    /\ bytes = <<-1, -110, 24>>
    /\ fn = "parseByte"
    /\ arg = 146

\* C2: the version of the record decoded from b is the two-bit code of bits
\* 6-5 plus one, so it lies in 1..4 (0xFF decodes to version 4).
C2_VersionIsCodePlusOne ==
    fn = "parseByte" =>
        /\ ret.version = ((arg \div 32) % 4) + 1
        /\ ret.version \in 1..4

\* C3: the gigahertz of the record decoded from b is the table's entry at
\* row b & 15 and column ((b >> 5) & 3) + 1 (0xFF resolves to 235550).
C3_GigahertzIsTableEntry ==
    fn = "parseByte" =>
        ret.gigahertz = resolve(((arg \div 32) % 4) + 1, arg % 16)

\* C4: encode(decode(b)) = b for every byte b, encode reassembling
\* (gender << 7) | ((version-1) << 5) | (active << 4) | code4 from the fields
\* of the decoded record.
C4_RoundTrip ==
    fn = "roundTrip" => (ret.status = "ok" /\ ret.byte = arg)

\* The headers whose four fields are all in their domains, the version field
\* as the raw two bits.
HeaderSpace ==
    [gender : 0..1, version : 0..3, active : 0..1, gigahertz : 0..15]

\* C5: parseByte returns, for every byte, a record with all four fields set
\* and in range: gender and active in 0..1, the version field in 0..3 and the
\* 4-bit code in 0..15.
C5_DecodedFieldsInRange ==
    /\ fn = "parseByte" => ret \in HeaderSpace
    /\ \A n \in 1..Len(hdrs) : hdrs[n] \in HeaderSpace
    /\ (fn = "none" /\ pc = "start") =>
           \A b \in UCharRange : parseByte(b) \in HeaderSpace

\* C5's case: a client has decoded the byte with every bit set.
C5_Witness ==
    /\ fn = "parseByte"
    /\ arg = 255
    /\ ret.version = 3
    /\ ret.gigahertz = 15

\* C6 as claimed: neither parseByte nor getRobotGender writes any output.
C6_DecodersPrintNothing ==
    fn \in {"parseByte", "getRobotGender"} => printed = <<>>

\* C6 amended: parseByte writes no output, in a client's call and in main,
\* whose sixteen lines all come from main's own printfs and from
\* getRobotGender; getRobotGender writes two lines on every call, the byte
\* and the masked value, each in decimal and in hexadecimal.
C6_ParseByteSilentGenderPrints ==
    /\ fn = "parseByte" => printed = <<>>
    /\ fn = "getRobotGender" =>
           LET res == IF arg >= 128 THEN 128 ELSE 0
           IN  printed = << <<101, arg, arg>>, <<102, res, res>> >>
    /\ pc = "gender" => [i \in 1..Len(out) |-> out[i][1]] = <<121>>
    /\ pc = "robot1" =>
           [i \in 1..Len(out) |-> out[i][1]] = <<121, 101, 102, 123>>
    /\ pc = "done" =>
           [i \in 1..Len(out) |-> out[i][1]] =
               <<121, 101, 102, 123, 128, 129, 130, 131,
                 143, 144, 145, 146, 158, 159, 160, 161>>

\* C6's case: a client's call of parseByte has returned, and main has run to
\* its end with the two lines of getRobotGender in its output.
C6_Witness ==
    /\ fn = "parseByte"
    /\ printed = <<>>
    /\ pc = "done"
    /\ \E i \in 1..Len(out) : out[i] = <<102, 128, 128>>

\* C7: two bytes that differ only in bit 4 (only in bit 7) decode to records
\* that differ only in active (only in gender); and for a record with fields
\* in range, changing only active (only gender) and encoding again changes
\* only bit 4 (only bit 7) of the byte.
C7_BitFieldIsolation ==
    /\ fn = "parseByte" =>
           LET h4 == parseByte(FlipBit(arg, 16))
               h7 == parseByte(FlipBit(arg, 128))
           IN  /\ h4 = [ret EXCEPT !.active = 1 - ret.active]
               /\ h7 = [ret EXCEPT !.gender = 1 - ret.gender]
    /\ (fn = "encode" /\ ret.status = "ok") =>
           LET e4 == encode(arg.gender, arg.version, 1 - arg.active, arg.code)
               e7 == encode(1 - arg.gender, arg.version, arg.active, arg.code)
           IN  /\ e4.status = "ok" /\ e4.byte = FlipBit(ret.byte, 16)
               /\ e7.status = "ok" /\ e7.byte = FlipBit(ret.byte, 128)

\* C7's case: a client has decoded 0x92, whose bits 7 and 4 are both set.
C7_Witness ==
    /\ fn = "parseByte"
    /\ arg = 146
    /\ ret.gender = 1
    /\ ret.active = 1
    /\ parseByte(130).active = 0
    /\ parseByte(18).gender = 0

\* C9: with h = parseByte(b),
\* (h.gender << 7) | (h.version << 5) | (h.active << 4) | h.gigahertz = b,
\* h.version being the raw two bits; so no other byte decodes to h.
C9_ParseByteLossless ==
    fn = "parseByte" =>
        /\ BitOr(BitOr(BitOr(ShiftLeft(ret.gender, 7), ShiftLeft(ret.version, 5)),
                       ShiftLeft(ret.active, 4)), ret.gigahertz) = arg
        /\ ret.gender * 128 + ret.version * 32 + ret.active * 16
               + ret.gigahertz = arg
        /\ \A b \in UCharRange \ {arg} : parseByte(b) # ret

\* C9's case: a client has decoded 0x6A, a byte with bits set in the version
\* and in the code.
C9_Witness ==
    /\ fn = "parseByte"
    /\ arg = 106
    /\ ret = [gender |-> 0, version |-> 3, active |-> 0, gigahertz |-> 10]

\* C10: getRobotGender(b) is 1 exactly when bit 7 of b is set, which is
\* parseByte(b).gender, whether char mask = 0x80 holds -128 (a signed char)
\* or 128; main's gender and hdr1.gender agree on 0xFF.
C10_GenderDecodersAgree ==
    /\ fn = "getRobotGender" =>
           /\ ret = (IF arg >= 128 THEN 1 ELSE 0)
           /\ ret = parseByte(arg).gender
    /\ pc \notin {"start", "gender"} => gender = 1
    /\ Len(hdrs) >= 1 => hdrs[1].gender = gender

\* C10's case: on a build whose char is signed the mask is -128, and a client
\* has asked for the gender of a byte with bit 7 set and other bits too.
C10_Witness ==
    /\ charSigned
    /\ GenderMask(charSigned) = -128
    /\ fn = "getRobotGender"
    /\ arg = 146
    /\ ret = 1

=============================================================================
